---- MODULE Spec2Model ----
(***************************************************************************)
(* Model of bhv_distance_app.py: a Streamlit script that builds address    *)
(* strings from an uploaded table, geocodes them through a session cache,  *)
(* and computes an all-pairs distance matrix in 25 x 25 request chunks.    *)
(*                                                                         *)
(* Four specifications share the operators below:                          *)
(*   SpecAddr   build_full_address on bounded DataFrames                   *)
(*   SpecCache  google_geocode and the cache CSV export / import           *)
(*   SpecBatch  distance_matrix_batch, one chunk-pair request per step     *)
(*   Spec       the whole script, one rerun per user interaction           *)
(***************************************************************************)
EXTENDS Integers, Sequences, FiniteSets, TLC

VARIABLES
    \* ---- SpecAddr: build_full_address(df, col_map)
    df,              \* the DataFrame argument: [cols, rows]
    col_map,         \* the column mapping argument
    full,            \* the returned Series, as a sequence of strings
    addr_pc,         \* "idle" | "call" | "done"
    \* ---- SpecCache and Spec: st.session_state["geocode_cache"]
    geocode_cache,   \* insertion-ordered dict: sequence of <<address, value>>
    geo_requests,    \* external geocoding calls issued so far, per address
    geo_window,      \* <<address, returned value>> of the google_geocode calls since the last import
    last_call,       \* the last cache operation and what it returned
    cache_pc,        \* "idle" | "run"
    \* ---- SpecBatch: distance_matrix_batch(origins, destinations, ...)
    origins,         \* the origins argument
    destinations,    \* the destinations argument
    results,         \* the results dict: a function from <<origin, dest>> to the entry
    o_pos,           \* index of the first element of the current origin chunk
    d_pos,           \* index of the first element of the current destination chunk
    requests,        \* the requests issued so far, in order
    batch_pc,        \* "idle" | "loop" | "done"
    \* ---- Spec: widgets and the outcome of the last script run
    api_key,         \* st.text_input "Google Maps API Key"
    uploaded,        \* st.file_uploader (Excel): a file of Files or NoFile
    prebuilt,        \* st.checkbox "Vorhandene Spalte 'full_address' verwenden"
    sample_n,        \* st.number_input "nur die ersten N Vereine"
    cache_file,      \* st.file_uploader (cache CSV): rows or NoCsv
    shown_latlng,    \* df["latlng"] as the last geocoding run displayed it
    run,             \* what the last script run did
    app_pc           \* "idle" | "run"

addr_vars  == <<df, col_map, full, addr_pc>>
cache_vars == <<geocode_cache, geo_requests, geo_window, last_call, cache_pc>>
batch_vars == <<origins, destinations, results, o_pos, d_pos, requests, batch_pc>>
app_vars   == <<api_key, uploaded, prebuilt, sample_n, cache_file, shown_latlng, run, app_pc>>
vars       == <<addr_vars, cache_vars, batch_vars, app_vars>>

(***************************************************************************)
(* Python values                                                           *)
(***************************************************************************)
\* a missing cell of a DataFrame (NaN / None in an object column)
NA == "<NA>"
\* Python None as the value of google_geocode and of a cache entry
None == <<>>
\* Python None in a numeric field of a result entry
Null == -1

RECURSIVE Join(_, _)
\* sep.join(segs)
Join(sep, segs) ==
    IF Len(segs) = 0 THEN ""
    ELSE IF Len(segs) = 1 THEN segs[1]
    ELSE segs[1] \o sep \o Join(sep, Tail(segs))

\* Series.astype(str) on one cell: a missing cell becomes the text "nan"
AsStr(cell) == IF cell = NA THEN "nan" ELSE cell

\* str.strip on the cell texts of the model
Strip(s) ==
    CASE s = " " -> ""
      [] s = " Berlin " -> "Berlin"
      [] OTHER -> s

(***************************************************************************)
(* build_full_address                                                      *)
(***************************************************************************)
MaxRows == 1

NoCol == "<None>"
AddrKeys == {"street", "zip", "city", "country"}
\* the column each selectbox preselects when the table has it
DefaultCol(key) ==
    CASE key = "street" -> "Adresse"
      [] key = "zip" -> "PLZ"
      [] key = "city" -> "Ort"
      [] key = "country" -> "Land"
AddrCols == {DefaultCol(k) : k \in AddrKeys}
CellText(col) ==
    CASE col = "Adresse" -> "Hauptstr. 1"
      [] col = "PLZ" -> "12345"
      [] col = "Ort" -> " Berlin "
      [] col = "Land" -> "Schweiz"
      [] OTHER -> "x"
CellsOf(col) == {NA, " ", CellText(col)}

\* col_or_empty(name) at row i
col_or_empty(d, name, i) ==
    IF name # NoCol /\ name \in d.cols THEN Strip(AsStr(d.rows[i][name])) ELSE ""

\* country_s at row i
country_s(d, cm, i) ==
    IF cm["country"] # NoCol /\ cm["country"] \in d.cols
    THEN Strip(AsStr(d.rows[i][cm["country"]]))
    ELSE ""

\* faulty variant of the default: a blank country stays blank
CountryNoDefault(country) == country
\* if not country: country = "Deutschland"
CountryOrDefault(country) == IF country = "" THEN "Deutschland" ELSE country

\* the loop body: the address of row i
RowAddress(d, cm, i) ==
    LET street  == col_or_empty(d, cm["street"], i)
        zipc    == col_or_empty(d, cm["zip"], i)
        city    == col_or_empty(d, cm["city"], i)
        country == CountryOrDefault(country_s(d, cm, i))
        place_parts == SelectSeq(<<zipc, city>>, LAMBDA p : p # "")
        segs == (IF street # "" THEN <<street>> ELSE <<>>)
                \o (IF Len(place_parts) > 0 THEN <<Join(" ", place_parts)>> ELSE <<>>)
                \o (IF country # "" THEN <<country>> ELSE <<>>)
    IN  Join(", ", segs)

build_full_address(d, cm) == [i \in 1..Len(d.rows) |-> RowAddress(d, cm, i)]

\* the rows a table with columns cs can hold
RowsOf(cs) == {r \in [cs -> UNION {CellsOf(c) : c \in cs}] : \A c \in cs : r[c] \in CellsOf(c)}
DataFrames ==
    UNION {[cols : {cs}, rows : UNION {[1..n -> RowsOf(cs)] : n \in 1..MaxRows}]
           : cs \in SUBSET AddrCols}
ColMaps == {cm \in [AddrKeys -> AddrCols \cup {NoCol}] : \A k \in AddrKeys : cm[k] \in {NoCol, DefaultCol(k)}}

(***************************************************************************)
(* The geocode cache: st.session_state["geocode_cache"], a dict            *)
(***************************************************************************)
RECURSIVE CacheIndex(_, _)
\* position of key a in the dict, 0 when absent
CacheIndex(c, a) ==
    IF Len(c) = 0 THEN 0
    ELSE IF c[Len(c)][1] = a THEN Len(c)
    ELSE CacheIndex(SubSeq(c, 1, Len(c) - 1), a)

\* address in cache
CacheHas(c, a) == CacheIndex(c, a) # 0
\* cache[address]
CacheGet(c, a) == c[CacheIndex(c, a)][2]
\* cache[address] = v: an existing key keeps its position, a new key is appended
CacheSet(c, a, v) ==
    IF CacheHas(c, a) THEN [c EXCEPT ![CacheIndex(c, a)] = <<a, v>>]
    ELSE Append(c, <<a, v>>)
CacheKeys(c) == {c[i][1] : i \in 1..Len(c)}

(***************************************************************************)
(* google_geocode                                                          *)
(***************************************************************************)
\* what the external geocoding API does on one attempt
ApiLocs == {<<52, 13>>, <<48, 9>>}
\* the coordinate pairs cache CSV files of the model state
ImportLocs == {<<50, 8>>, <<52, 13>>}
Answers ==
    [kind : {"found"}, loc : ApiLocs]
    \cup [kind : {"empty", "raise"}, loc : {None}]

\* faulty variant of the guard: the empty address is looked up like any other
NeverFalsy(address) == FALSE
\* "if not address"
IsFalsy(address) == address = ""

\* faulty variant of the cache check: a cached "not found" is looked up again
CacheHitTruthy(c, address) == CacheHas(c, address) /\ CacheGet(c, address) # None
\* "if address in st.session_state[...]"
CacheHit(c, address) == CacheHas(c, address)

\* google_geocode(address, key) when the API would answer `answer`:
\* the cache afterwards, the returned value, and whether the API was called
google_geocode(c, address, answer) ==
    IF IsFalsy(address) THEN [cache |-> c, ret |-> None, called |-> FALSE]
    ELSE IF CacheHit(c, address)
    THEN [cache |-> c, ret |-> CacheGet(c, address), called |-> FALSE]
    ELSE IF answer.kind = "found"
    THEN [cache |-> CacheSet(c, address, answer.loc), ret |-> answer.loc, called |-> TRUE]
    ELSE [cache |-> CacheSet(c, address, None), ret |-> None, called |-> TRUE]

(***************************************************************************)
(* Cache CSV export and import                                             *)
(***************************************************************************)
\* a float as to_csv writes it (whole-number floats)
FloatStr(x) == ToString(x) \o ".0"
\* the latitudes and longitudes of the model
CoordVals == {l[1] : l \in ApiLocs \cup ImportLocs} \cup {l[2] : l \in ApiLocs \cup ImportLocs}
\* a CSV field as read_csv and float() read it
ParseFloat(s) == CHOOSE x \in CoordVals : FloatStr(x) = s

\* (k, v[0], v[1]) written as one CSV line
CsvRow(entry) == <<entry[1], FloatStr(entry[2][1]), FloatStr(entry[2][2])>>

\* the download data: the entries whose value is not None, in dict order
ExportCsv(c) ==
    LET kept == SelectSeq(c, LAMBDA e : e[2] # None)
    IN  [i \in 1..Len(kept) |-> CsvRow(kept[i])]

\* faulty variant of the import: an address already cached keeps its entry
ImportRowKeep(c, row) ==
    IF CacheHas(c, row[1]) THEN c
    ELSE CacheSet(c, row[1], <<ParseFloat(row[2]), ParseFloat(row[3])>>)
\* cache[row["address"]] = (float(row["lat"]), float(row["lng"]))
ImportRow(c, row) == CacheSet(c, row[1], <<ParseFloat(row[2]), ParseFloat(row[3])>>)

RECURSIVE ImportCsv(_, _)
\* for _, row in imp.iterrows(): ...
ImportCsv(c, rows) ==
    IF Len(rows) = 0 THEN c
    ELSE ImportCsv(ImportRow(c, Head(rows)), Tail(rows))

(***************************************************************************)
(* Idle values: what a specification leaves alone                          *)
(***************************************************************************)
NoCall == [op |-> "none", address |-> "", answer |-> [kind |-> "empty", loc |-> None],
           ret |-> None, called |-> FALSE, before |-> <<>>, rows |-> <<>>]
\* no Excel file in the uploader
NoFile == [name |-> "", cols |-> {}, rows |-> <<>>]
\* no cache CSV in the uploader
NoCsv == [present |-> FALSE, rows |-> <<>>]
\* the record of a run that reached nothing
NoRun ==
    [key_empty |-> TRUE, button |-> "none", stopped |-> FALSE, rendered |-> FALSE,
     geo_calls |-> 0, dm_calls |-> 0, computed |-> FALSE, addresses |-> <<>>,
     tokens |-> <<>>, res |-> <<>>, matrix |-> <<>>, download |-> NoCsv]

AddrIdle ==
    /\ df = [cols |-> {}, rows |-> <<>>]
    /\ col_map = [k \in AddrKeys |-> NoCol]
    /\ full = <<>>
    /\ addr_pc = "idle"
CacheIdle ==
    /\ geocode_cache = <<>>
    /\ geo_requests = <<>>
    /\ geo_window = {}
    /\ last_call = NoCall
    /\ cache_pc = "idle"
AppIdle ==
    /\ api_key = ""
    /\ uploaded = NoFile
    /\ prebuilt = FALSE
    /\ sample_n = 0
    /\ cache_file = NoCsv
    /\ shown_latlng = <<>>
    /\ run = NoRun
    /\ app_pc = "idle"
BatchIdle ==
    /\ origins = <<>>
    /\ destinations = <<>>
    /\ results = <<>>
    /\ o_pos = 0
    /\ d_pos = 0
    /\ requests = <<>>
    /\ batch_pc = "idle"

(***************************************************************************)
(* SpecCache: a session of google_geocode calls and cache CSV imports      *)
(***************************************************************************)
MaxCsvRows == 2
MaxGeoRequests == 2

AddrBerlin == "Hauptstr. 1, 12345 Berlin, Deutschland"
AddrOnlyCountry == "Deutschland"
CacheAddresses == {"", AddrBerlin, AddrOnlyCountry}
CsvRows == {<<a, FloatStr(l[1]), FloatStr(l[2])>> : a \in CacheAddresses \ {""}, l \in ImportLocs}
CsvFiles == UNION {[1..n -> CsvRows] : n \in 1..MaxCsvRows}

InitCache ==
    /\ geocode_cache = <<>>
    /\ geo_requests = [a \in CacheAddresses |-> 0]
    /\ geo_window = {}
    /\ last_call = NoCall
    /\ cache_pc = "run"
    /\ AddrIdle
    /\ BatchIdle
    /\ AppIdle

\* one call google_geocode(address, key)
GeocodeCall ==
    /\ cache_pc = "run"
    /\ \E address \in CacheAddresses, answer \in Answers :
         LET g == google_geocode(geocode_cache, address, answer)
         IN  /\ geo_requests[address] < MaxGeoRequests
             /\ geocode_cache' = g.cache
             /\ geo_requests' = [geo_requests EXCEPT ![address] = @ + (IF g.called THEN 1 ELSE 0)]
             /\ geo_window' = geo_window \cup {<<address, g.ret>>}
             /\ last_call' = [op |-> "geocode", address |-> address, answer |-> answer,
                              ret |-> g.ret, called |-> g.called, before |-> geocode_cache,
                              rows |-> <<>>]
    /\ UNCHANGED <<cache_pc, addr_vars, batch_vars, app_vars>>

\* a cache CSV is uploaded and merged into the session cache
CacheImport ==
    /\ cache_pc = "run"
    /\ \E rows \in CsvFiles :
         /\ geocode_cache' = ImportCsv(geocode_cache, rows)
         /\ last_call' = [NoCall EXCEPT !.op = "import", !.before = geocode_cache, !.rows = rows]
    /\ geo_window' = {}
    /\ UNCHANGED <<geo_requests, cache_pc, addr_vars, batch_vars, app_vars>>

\* the downloaded cache CSV is uploaded again
CacheReimport ==
    /\ cache_pc = "run"
    /\ Len(geocode_cache) > 0
    /\ geocode_cache' = ImportCsv(geocode_cache, ExportCsv(geocode_cache))
    /\ last_call' = [NoCall EXCEPT !.op = "reimport", !.before = geocode_cache,
                                   !.rows = ExportCsv(geocode_cache)]
    /\ geo_window' = {}
    /\ UNCHANGED <<geo_requests, cache_pc, addr_vars, batch_vars, app_vars>>

(***************************************************************************)
(* distance_matrix_batch                                                   *)
(***************************************************************************)
max_origins == 25
max_destinations == 25

Min(a, b) == IF a < b THEN a ELSE b
\* ceil(n / size)
CeilDiv(n, size) == (n + size - 1) \div size

\* faulty variant of the slice: lst[i : i + size + 1]
ChunkOffByOne(lst, size, pos) == SubSeq(lst, pos, Min(pos + size, Len(lst)))
\* chunk_list: the chunk lst[i : i + size] that starts at index pos (1-based)
Chunk(lst, size, pos) == SubSeq(lst, pos, Min(pos + size - 1, Len(lst)))

\* what the Distance Matrix API does with one request
ErrMsgs == {"Read timed out"}
\* `bad`: the tokens the API cannot resolve; `metres`: the distance it reports
OutcomesFor(token, metres) ==
    [kind : {"ok"}, bad : {{}, {token}}, metres : metres, msg : {""}]
    \cup [kind : {"denied"}, bad : {{}}, metres : {0}, msg : {""}]
    \cup [kind : {"raise"}, bad : {{}}, metres : {0}, msg : ErrMsgs]

\* elem.get("status") of the element for (origin, dest) in a 200 response
ElemStatus(out, origin, dest) ==
    IF origin \in out.bad \/ dest \in out.bad THEN "NOT_FOUND" ELSE "OK"

\* faulty variant of the element entry: the values are kept whatever the status
ElemEntryKeepValues(out, origin, dest) ==
    [distance_m |-> out.metres, duration_s |-> out.metres \div 10,
     status |-> ElemStatus(out, origin, dest)]
\* lines 97-103: the entry recorded for one element
ElemEntry(out, origin, dest) ==
    IF ElemStatus(out, origin, dest) = "OK"
    THEN [distance_m |-> out.metres, duration_s |-> out.metres \div 10, status |-> "OK"]
    ELSE [distance_m |-> Null, duration_s |-> Null, status |-> ElemStatus(out, origin, dest)]

\* line 108: the entry recorded for every pair of a chunk pair whose request raised
ErrorEntry(msg) == [distance_m |-> Null, duration_s |-> Null, status |-> "ERROR: " \o msg]

Range(seq) == {seq[i] : i \in 1..Len(seq)}

\* lines 88-109: the results dict after the request for (o_chunk, d_chunk) ended as `out`
BatchStep(res, o_chunk, d_chunk, out) ==
    LET keys == Range(o_chunk) \X Range(d_chunk)
    IN  CASE out.kind = "ok" -> [k \in keys |-> ElemEntry(out, k[1], k[2])] @@ res
          [] out.kind = "denied" -> res
          [] out.kind = "raise" -> [k \in keys |-> ErrorEntry(out.msg)] @@ res

\* the loop position after the chunk pair at (op, dp); <<0, 0>> when the loops are over
NextPos(os, ds, op, dp) ==
    IF dp + max_destinations <= Len(ds) THEN <<op, dp + max_destinations>>
    ELSE IF op + max_origins <= Len(os) THEN <<op + max_origins, 1>>
    ELSE <<0, 0>>
\* the first chunk pair; none when either list is empty
FirstPos(os, ds) == IF Len(os) = 0 \/ Len(ds) = 0 THEN <<0, 0>> ELSE <<1, 1>>

RECURSIVE BatchFrom(_, _, _, _, _, _)
\* the whole call from position (op, dp) on, request n ending as outs[n]
BatchFrom(res, os, ds, pos, outs, n) ==
    IF pos = <<0, 0>> THEN res
    ELSE BatchFrom(BatchStep(res, Chunk(os, max_origins, pos[1]),
                             Chunk(ds, max_destinations, pos[2]), outs[n]),
                   os, ds, NextPos(os, ds, pos[1], pos[2]), outs, n + 1)
\* distance_matrix_batch(origins, destinations, ...)
distance_matrix_batch(os, ds, outs) == BatchFrom(<<>>, os, ds, FirstPos(os, ds), outs, 1)
RECURSIVE RequestsFrom(_, _, _)
\* the number of requests the call issues from position pos on
RequestsFrom(os, ds, pos) ==
    IF pos = <<0, 0>> THEN 0 ELSE 1 + RequestsFrom(os, ds, NextPos(os, ds, pos[1], pos[2]))

(***************************************************************************)
(* SpecBatch: one call of distance_matrix_batch, one request per step      *)
(***************************************************************************)
MaxLen == 30

Periods == {2, max_origins, MaxLen}
\* token lists: position i holds token number (i - 1) mod period
TokenList(n, period) == [i \in 1..n |-> "t" \o ToString((i - 1) % period)]

\* list lengths around the chunk limit
Sizes == {0, 1, 2, max_origins - 1, max_origins, max_origins + 1, MaxLen}

InitBatch ==
    /\ \E n \in Sizes, m \in Sizes, period \in Periods :
         /\ origins = TokenList(n, period)
         /\ destinations = TokenList(m, period)
    /\ results = <<>>
    /\ o_pos = 0
    /\ d_pos = 0
    /\ requests = <<>>
    /\ batch_pc = "call"
    /\ AddrIdle
    /\ CacheIdle
    /\ AppIdle

\* entry of the function: results = {} and the loops start
BatchCall ==
    /\ batch_pc = "call"
    /\ results' = <<>>
    /\ o_pos' = FirstPos(origins, destinations)[1]
    /\ d_pos' = FirstPos(origins, destinations)[2]
    /\ batch_pc' = IF FirstPos(origins, destinations) = <<0, 0>> THEN "return" ELSE "loop"
    /\ UNCHANGED <<origins, destinations, requests, addr_vars, cache_vars, app_vars>>

\* one iteration of the inner loop: the request of the current chunk pair
BatchRequest ==
    /\ batch_pc = "loop"
    /\ \E out \in OutcomesFor("t0", {1500}) :
         LET o_chunk == Chunk(origins, max_origins, o_pos)
             d_chunk == Chunk(destinations, max_destinations, d_pos)
             next == NextPos(origins, destinations, o_pos, d_pos)
         IN  /\ results' = BatchStep(results, o_chunk, d_chunk, out)
             /\ requests' = Append(requests, [o_from |-> o_pos, o_len |-> Len(o_chunk),
                                              d_from |-> d_pos, d_len |-> Len(d_chunk),
                                              out |-> out])
             /\ o_pos' = next[1]
             /\ d_pos' = next[2]
             /\ batch_pc' = IF next = <<0, 0>> THEN "return" ELSE "loop"
    /\ UNCHANGED <<origins, destinations, addr_vars, cache_vars, app_vars>>

\* return results
BatchReturn ==
    /\ batch_pc = "return"
    /\ batch_pc' = "done"
    /\ UNCHANGED <<origins, destinations, results, o_pos, d_pos, requests,
                   addr_vars, cache_vars, app_vars>>

(***************************************************************************)
(* The script: widgets, one rerun per user interaction                     *)
(***************************************************************************)
MaxSample == 1

ApiKeys == {"", "KEY"}
FileVereine ==
    [name |-> "vereine.xlsx", cols |-> {"Verein", "Adresse", "PLZ", "Ort"},
     rows |-> << [Verein |-> "TSV", Adresse |-> "Hauptstr. 1", PLZ |-> "12345", Ort |-> " Berlin "],
                 [Verein |-> "SC", Adresse |-> " ", PLZ |-> " ", Ort |-> " "] >>]
FilePrebuilt ==
    [name |-> "prebuilt.xlsx", cols |-> {"Verein", "full_address", "latlng"},
     rows |-> << [Verein |-> "TSV", full_address |-> AddrBerlin, latlng |-> "52.0,13.0"],
                 [Verein |-> "SC", full_address |-> NA, latlng |-> NA] >>]
Files == {FileVereine, FilePrebuilt}

Csv(rows) == [present |-> TRUE, rows |-> rows]
AppCsvFiles == {Csv(<< <<AddrBerlin, "50.0", "8.0">> >>)}
AppAnswers == {a \in Answers : a.loc # <<48, 9>>}

\* the selectbox defaults of lines 157-160
DefaultColMap(d) == [k \in AddrKeys |-> IF DefaultCol(k) \in d.cols THEN DefaultCol(k) ELSE NoCol]

\* lines 167-170
Addresses(d, pre) ==
    IF pre THEN [i \in 1..Len(d.rows) |-> AsStr(d.rows[i]["full_address"])]
    ELSE build_full_address(d, DefaultColMap(d))

\* to_latlng_string(lat, lng)
to_latlng_string(lat, lng) == FloatStr(lat) \o "," \o FloatStr(lng)

\* faulty variant of the key check: the script never stops
KeyNeverMissing(key) == FALSE
\* "if not api_key"
KeyMissing(key) == key = ""

RECURSIVE GeocodeAll(_, _, _, _)
\* lines 184-185: coords.append(google_geocode(addr, api_key)) for each address from i on
GeocodeAll(acc, addresses, answers, i) ==
    IF i > Len(addresses) THEN acc
    ELSE LET g == google_geocode(acc.cache, addresses[i], answers[i])
         IN  GeocodeAll([cache |-> g.cache, coords |-> Append(acc.coords, g.ret),
                         calls |-> acc.calls + (IF g.called THEN 1 ELSE 0)],
                        addresses, answers, i + 1)

\* line 189: df["latlng"]
LatLngColumn(coords) ==
    [i \in 1..Len(coords) |-> IF coords[i] # None THEN to_latlng_string(coords[i][1], coords[i][2]) ELSE NA]

\* lines 213-216
OriginTokens(has_latlng, latlng, addresses) ==
    IF has_latlng /\ \E i \in 1..Len(latlng) : latlng[i] # NA
    THEN [i \in 1..Len(addresses) |-> IF latlng[i] # NA THEN latlng[i] ELSE addresses[i]]
    ELSE addresses

\* lines 218-220: lst[:sample_n] when sample_n > 0
Sample(lst, n) == IF n > 0 THEN SubSeq(lst, 1, Min(n, Len(lst))) ELSE lst

\* lines 243-254 for one cell; metric units, hundredths of km and tenths of minutes
\* (the distances of the model are multiples of 10 m, the durations of 6 s)
FilledCell(res, o, d) ==
    LET r == IF <<o, d>> \in DOMAIN res THEN res[<<o, d>>]
             ELSE [distance_m |-> Null, duration_s |-> Null, status |-> "N/A"]
    IN  [dist_km |-> IF r.distance_m # Null THEN r.distance_m \div 10 ELSE Null,
         time_min |-> IF r.duration_s # Null THEN r.duration_s \div 6 ELSE Null,
         status |-> r.status]

\* faulty variant of the diagonal overwrite: the filled cell is kept
DiagonalKept(cell) == cell
\* lines 256-259
DiagonalCell(cell) == [dist_km |-> 0, time_min |-> 0, status |-> "OK"]

\* lines 237-259: the three tables, as one table of cells
Matrix(res, names, tokens) ==
    [c \in (1..Len(tokens)) \X (1..Len(tokens)) |->
        IF c[1] = c[2] /\ c[1] <= Len(names)
        THEN DiagonalCell(FilledCell(res, tokens[c[1]], tokens[c[2]]))
        ELSE FilledCell(res, tokens[c[1]], tokens[c[2]])]

\* line 37-38 on the first run of the session, no widget touched yet
Init ==
    /\ api_key = ""
    /\ uploaded = NoFile
    /\ prebuilt = FALSE
    /\ sample_n = 0
    /\ cache_file = NoCsv
    /\ shown_latlng = <<>>
    /\ run = NoRun
    /\ app_pc = "run"
    /\ geocode_cache = <<>>
    /\ geo_requests = <<>>
    /\ geo_window = {}
    /\ last_call = NoCall
    /\ cache_pc = "idle"
    /\ AddrIdle
    /\ BatchIdle

\* what one run of the script leaves behind
Finish(cache, run_rec, key, upl, pre, n, cfile, shown) ==
    /\ geocode_cache' = cache
    /\ run' = run_rec
    /\ api_key' = key
    /\ uploaded' = upl
    /\ prebuilt' = pre
    \* widgets the run did not reach (after st.stop, or without an upload) lose their value
    /\ sample_n' = IF run_rec.rendered THEN n ELSE 0
    /\ cache_file' = IF run_rec.rendered THEN cfile ELSE NoCsv
    /\ shown_latlng' = shown
    /\ UNCHANGED <<app_pc, geo_requests, geo_window, last_call, cache_pc, addr_vars, batch_vars>>

\* lines 176-277: the sections after the API key check
Sections(key, upl, pre, n, cfile, button, shown, addresses) ==
    \E answers \in [1..(IF button = "geocode" THEN Len(addresses) ELSE 0) -> AppAnswers],
       outs \in [1..(IF button = "compute" THEN CeilDiv(Len(addresses), max_origins) ELSE 0)
                    -> OutcomesFor(AddrOnlyCountry, {0, 1500})] :
    \* lines 181-191: the geocoding button
    \E geo \in {IF button = "geocode"
                THEN GeocodeAll([cache |-> geocode_cache, coords |-> <<>>, calls |-> 0], addresses, answers, 1)
                ELSE [cache |-> geocode_cache, coords |-> <<>>, calls |-> 0]} :
    \* lines 195-199: the download button, only when the cache is not empty
    \E download \in {IF Len(geo.cache) > 0 THEN Csv(ExportCsv(geo.cache)) ELSE NoCsv} :
    \* lines 200-205: the cache CSV in the uploader is imported on every run
    \E cache2 \in {IF cfile.present THEN ImportCsv(geo.cache, cfile.rows) ELSE geo.cache} :
    \* line 211
    \E names \in {Sample([i \in 1..Len(upl.rows) |-> AsStr(upl.rows[i]["Verein"])], n)} :
    \* df["latlng"]: set by the geocoding button in this run, or a column of the file
    \E latlng \in {IF button = "geocode" THEN LatLngColumn(geo.coords)
                   ELSE IF "latlng" \in upl.cols THEN [i \in 1..Len(upl.rows) |-> upl.rows[i]["latlng"]]
                   ELSE <<>>} :
    \E tokens \in {Sample(OriginTokens(button = "geocode" \/ "latlng" \in upl.cols, latlng, addresses), n)} :
    \* lines 222-235: the compute button
    \E res \in {IF button = "compute" THEN distance_matrix_batch(tokens, tokens, outs) ELSE <<>>} :
        Finish(cache2,
               [key_empty |-> key = "", button |-> button, stopped |-> FALSE, rendered |-> TRUE,
                geo_calls |-> geo.calls,
                dm_calls |-> IF button = "compute"
                             THEN RequestsFrom(tokens, tokens, FirstPos(tokens, tokens)) ELSE 0,
                computed |-> button = "compute", addresses |-> addresses,
                tokens |-> IF button = "compute" THEN tokens ELSE <<>>,
                res |-> res,
                matrix |-> IF button = "compute" THEN Matrix(res, names, tokens) ELSE <<>>,
                download |-> download],
               key, upl, pre, n, cfile,
               IF button = "geocode" THEN latlng ELSE shown)

\* one run of the script, top to bottom: the rerun an interaction triggers, with
\* the widget values it submits
Rerun(key, upl, pre, n, cfile, button, shown) ==
    IF upl = NoFile
    THEN \* line 150: nothing below runs without an upload
         Finish(geocode_cache, [NoRun EXCEPT !.key_empty = (key = ""), !.button = button],
                key, upl, pre, n, cfile, shown)
    ELSE IF KeyMissing(key)
    THEN \* lines 172-174: st.stop()
         Finish(geocode_cache,
                [NoRun EXCEPT !.key_empty = (key = ""), !.button = button, !.stopped = TRUE,
                              !.addresses = Addresses(upl, pre)],
                key, upl, pre, n, cfile, shown)
    ELSE \E addresses \in {Addresses(upl, pre)} :
            Sections(key, upl, pre, n, cfile, button, shown, addresses)

\* the user edits the API key field
SetApiKey ==
    /\ app_pc = "run"
    /\ \E key \in ApiKeys \ {api_key} :
         Rerun(key, uploaded, prebuilt, sample_n, cache_file, "none", shown_latlng)

\* the user uploads, replaces or removes the Excel file
UploadExcel ==
    /\ app_pc = "run"
    /\ \E upl \in (Files \cup {NoFile}) \ {uploaded} :
         Rerun(api_key, upl, FALSE, sample_n, cache_file, "none", <<>>)

\* the user ticks or unticks "Vorhandene Spalte 'full_address' verwenden"
TogglePrebuilt ==
    /\ app_pc = "run"
    /\ "full_address" \in uploaded.cols
    /\ Rerun(api_key, uploaded, ~prebuilt, sample_n, cache_file, "none", <<>>)

\* the user changes "nur die ersten N Vereine"
SetSampleN ==
    /\ app_pc = "run"
    /\ run.rendered
    /\ \E n \in (0..MaxSample) \ {sample_n} :
         Rerun(api_key, uploaded, prebuilt, n, cache_file, "none", shown_latlng)

\* the user uploads or removes a cache CSV: a file of their own or the one downloaded
UploadCacheCsv ==
    /\ app_pc = "run"
    /\ run.rendered
    /\ \E cfile \in (AppCsvFiles \cup {NoCsv, run.download}) \ {cache_file} :
         Rerun(api_key, uploaded, prebuilt, sample_n, cfile, "none", shown_latlng)

\* the user clicks "Geocoding starten"; the click submits the key field as it stands
PressGeocode ==
    /\ app_pc = "run"
    /\ run.rendered
    /\ \E key \in ApiKeys :
         Rerun(key, uploaded, prebuilt, sample_n, cache_file, "geocode", shown_latlng)

\* the user clicks "Entfernungen & Zeiten berechnen"
PressCompute ==
    /\ app_pc = "run"
    /\ run.rendered
    /\ \E key \in ApiKeys :
         Rerun(key, uploaded, prebuilt, sample_n, cache_file, "compute", shown_latlng)

Next ==
    \/ SetApiKey
    \/ UploadExcel
    \/ TogglePrebuilt
    \/ SetSampleN
    \/ UploadCacheCsv
    \/ PressGeocode
    \/ PressCompute

Spec == Init /\ [][Next]_vars

(***************************************************************************)
(* SpecAddr, SpecCache, SpecBatch                                          *)
(***************************************************************************)
InitAddr ==
    /\ df \in DataFrames
    /\ col_map \in ColMaps
    /\ full = <<>>
    /\ addr_pc = "call"
    /\ CacheIdle
    /\ BatchIdle
    /\ AppIdle

\* the call build_full_address(df, col_map)
BuildFullAddress ==
    /\ addr_pc = "call"
    /\ full' = build_full_address(df, col_map)
    /\ addr_pc' = "done"
    /\ UNCHANGED <<df, col_map, cache_vars, batch_vars, app_vars>>

NextAddr == BuildFullAddress
SpecAddr == InitAddr /\ [][NextAddr]_vars

NextCache ==
    \/ GeocodeCall
    \/ CacheImport
    \/ CacheReimport
SpecCache == InitCache /\ [][NextCache]_vars

NextBatch ==
    \/ BatchCall
    \/ BatchRequest
    \/ BatchReturn
SpecBatch == InitBatch /\ [][NextBatch]_vars

(***************************************************************************)
(* Properties of build_full_address (SpecAddr)                             *)
(***************************************************************************)
\* the field is not mapped to a column of the table
FieldAbsent(key) == col_map[key] = NoCol \/ col_map[key] \notin df.cols
\* the field of row i is blank: no column, a missing cell, or only whitespace
FieldBlank(key, i) == FieldAbsent(key) \/ df.rows[i][col_map[key]] \in {NA, " "}
\* the field of row i is blank text: no column, or a cell of only whitespace
FieldBlankText(key, i) == FieldAbsent(key) \/ df.rows[i][col_map[key]] = " "

\* C6 as stated: build_full_address returns the empty string for a row whose
\* street, zip, city and country fields are all blank, and when all four
\* columns are absent from the mapping.
C6_BlankRowGivesEmptyString ==
    addr_pc = "done" =>
        \A i \in 1..Len(df.rows) :
            (\A key \in AddrKeys : FieldBlank(key, i)) => full[i] = ""

\* C6 amended: for a row whose four fields are all blank text (whitespace-only
\* cells or unmapped columns) build_full_address returns the default country
\* alone, "Deutschland", and never the empty string.
C6_BlankRowGivesDefaultCountry ==
    addr_pc = "done" =>
        \A i \in 1..Len(df.rows) :
            /\ (\A key \in AddrKeys : FieldBlankText(key, i)) => full[i] = "Deutschland"
            /\ full[i] # ""

\* a row of four mapped whitespace-only cells has been turned into "Deutschland"
C6_Witness ==
    /\ addr_pc = "done"
    /\ \E i \in 1..Len(df.rows) :
         /\ \A key \in AddrKeys : ~FieldAbsent(key) /\ df.rows[i][col_map[key]] = " "
         /\ full[i] = "Deutschland"

(***************************************************************************)
(* Properties of the geocoder and the cache (SpecCache)                    *)
(***************************************************************************)
\* the values google_geocode returned for address a since the last import
ReturnedFor(a) == {w[2] : w \in {v \in geo_window : v[1] = a}}

\* C1: with no cache import in between, at most one external geocoding call is
\* issued per distinct non-empty address, and every later call with that address
\* returns the value the first call returned, whatever the API would answer now.
C1_CacheIdempotence ==
    \A a \in CacheAddresses \ {""} :
        /\ geo_requests[a] <= 1
        /\ Cardinality(ReturnedFor(a)) <= 1
        /\ (last_call.op = "geocode" /\ last_call.address = a /\ CacheHas(last_call.before, a))
              => /\ ~last_call.called
                 /\ last_call.ret = CacheGet(last_call.before, a)
                 /\ geocode_cache = last_call.before

\* a repeated call found the cached "not found" sentinel although the API would
\* now resolve the address
C1_Witness ==
    /\ last_call.op = "geocode"
    /\ last_call.address # ""
    /\ geo_requests[last_call.address] = 1
    /\ ~last_call.called
    /\ last_call.answer.kind = "found"
    /\ last_call.ret = None

\* the rows of the file that set address a, in file order
RowsFor(rows, a) == SelectSeq(rows, LAMBDA r : r[1] = a)
\* the coordinate pair a CSV row states
RowLoc(row) == CHOOSE l \in ApiLocs \cup ImportLocs : row[2] = FloatStr(l[1]) /\ row[3] = FloatStr(l[2])

C10_EmptyAddressIgnored ==
    /\ "" \notin CacheKeys(geocode_cache)
    /\ geo_requests[""] = 0
    /\ (last_call.op = "geocode" /\ last_call.address = "")
          => /\ last_call.ret = None
             /\ ~last_call.called
             /\ geocode_cache = last_call.before

\* google_geocode("") was called on a cache that already holds entries
C10_Witness ==
    /\ last_call.op = "geocode"
    /\ last_call.address = ""
    /\ Len(geocode_cache) > 0

(***************************************************************************)
(* Properties of distance_matrix_batch (SpecBatch)                         *)
(***************************************************************************)
\* the origin / destination positions request r covers
OriginsOf(r) == r.o_from .. (r.o_from + r.o_len - 1)
DestinationsOf(r) == r.d_from .. (r.d_from + r.d_len - 1)
\* the entry is a valid result: status "OK" with both values
ValidEntry(e) == e.status = "OK" /\ e.distance_m # Null /\ e.duration_s # Null
\* the entry of a failed request
ErrorStatus(e) == e.status \in {"ERROR: " \o msg : msg \in ErrMsgs}

\* the API answered consistently: the same tokens were unresolvable in every
\* request that succeeded
ConsistentStatuses ==
    \A k1, k2 \in 1..Len(requests) :
        (requests[k1].out.kind = "ok" /\ requests[k2].out.kind = "ok")
            => requests[k1].out.bad = requests[k2].out.bad

\* C2 as stated: every (origin, destination) pair of a chunk pair whose own
\* request succeeded with element status "OK" has a valid result in the
\* returned map, whatever network errors the requests of other chunk pairs
\* raised (the element statuses themselves being the same in every request).
C2_FailureIsolation ==
    (batch_pc = "done" /\ ConsistentStatuses) =>
        \A k \in 1..Len(requests) :
            requests[k].out.kind = "ok" =>
                \A i \in OriginsOf(requests[k]), j \in DestinationsOf(requests[k]) :
                    ElemStatus(requests[k].out, origins[i], destinations[j]) = "OK"
                        => /\ <<origins[i], destinations[j]>> \in DOMAIN results
                           /\ ValidEntry(results[<<origins[i], destinations[j]>>])

\* C3: the call issues exactly ceil(N/25) * ceil(M/25) requests, each with at
\* most 25 origins and 25 destinations, and every (origin index, destination
\* index) pair is covered by exactly one request, whichever requests fail.
C3_ChunkRequests ==
    batch_pc = "done" =>
        /\ Len(requests) = CeilDiv(Len(origins), 25) * CeilDiv(Len(destinations), 25)
        /\ \A k \in 1..Len(requests) :
             /\ requests[k].o_len \in 1..25
             /\ requests[k].d_len \in 1..25
        /\ \A i \in 1..Len(origins), j \in 1..Len(destinations) :
             Cardinality({k \in 1..Len(requests) :
                             i \in OriginsOf(requests[k]) /\ j \in DestinationsOf(requests[k])}) = 1

\* 30 origins and 30 destinations were served by 4 requests, one of which failed
C3_Witness ==
    /\ batch_pc = "done"
    /\ Len(origins) = 30
    /\ Len(destinations) = 30
    /\ Len(requests) = 4
    /\ \E k \in 1..Len(requests) : requests[k].out.kind = "raise"

\* C8: an entry of the map has a distance and a duration exactly when its status
\* is "OK", never one without the other; the request just made recorded status
\* "OK" with both values or the element's other status with both null, and when
\* it failed recorded every pair of its chunk pair with both null and a status
\* starting with "ERROR: ".
C8_ValuesIffOk ==
    /\ \A key \in DOMAIN results :
         /\ (results[key].distance_m # Null) <=> (results[key].status = "OK")
         /\ (results[key].duration_s # Null) <=> (results[key].status = "OK")
    /\ Len(requests) > 0 =>
         LET r == requests[Len(requests)]
         IN  \A i \in OriginsOf(r), j \in DestinationsOf(r) :
                 LET key == <<origins[i], destinations[j]>>
                 IN  /\ r.out.kind = "ok" =>
                            /\ key \in DOMAIN results
                            /\ results[key].status = ElemStatus(r.out, key[1], key[2])
                     /\ r.out.kind = "raise" =>
                            /\ key \in DOMAIN results
                            /\ ErrorStatus(results[key])
                            /\ results[key].distance_m = Null
                            /\ results[key].duration_s = Null

\* the returned map holds a valid entry, an entry with another element status
\* and an entry of a failed request
C8_Witness ==
    /\ batch_pc = "done"
    /\ \E k1 \in DOMAIN results : ValidEntry(results[k1])
    /\ \E k2 \in DOMAIN results : results[k2].status = "NOT_FOUND" /\ results[k2].distance_m = Null
    /\ \E k3 \in DOMAIN results : ErrorStatus(results[k3]) /\ results[k3].distance_m = Null

(***************************************************************************)
(* Properties of the script (Spec)                                         *)
(***************************************************************************)
\* what the API returned for the pair of row i with itself
SelfResult(i) == FilledCell(run.res, run.tokens[i], run.tokens[i])

\* C4: after the matrix assembly every diagonal cell is distance 0.0, duration
\* 0.0 and status "OK", whatever the API returned for the self-pair.
C4_DiagonalNormalized ==
    run.computed =>
        \A i \in 1..Len(run.tokens) :
            /\ run.matrix[<<i, i>>].dist_km = 0
            /\ run.matrix[<<i, i>>].time_min = 0
            /\ run.matrix[<<i, i>>].status = "OK"

\* a matrix was assembled from a self-pair with a nonzero distance and a
\* self-pair with a status other than "OK"
C4_Witness ==
    /\ run.computed
    /\ \E i \in 1..Len(run.tokens) : SelfResult(i).status = "OK" /\ SelfResult(i).dist_km > 0
    /\ \E i \in 1..Len(run.tokens) : SelfResult(i).status = "NOT_FOUND"

\* C5 as stated: when the compute button is pressed after the geocoding button,
\* the token sent for each row is the row's "lat,lng" string when geocoding
\* resolved its address, and the raw address only when it did not.
C5_TokensAreGeocoded ==
    (run.computed /\ shown_latlng # <<>>) =>
        \A i \in 1..Len(run.tokens) :
            run.tokens[i] = IF shown_latlng[i] # NA THEN shown_latlng[i] ELSE run.addresses[i]

\* C7: a run with an empty API key issues no geocoding and no distance request
\* and does not reach the geocoding and distance sections, whichever button was
\* pressed.
C7_NoKeyNoNetwork ==
    run.key_empty =>
        /\ run.geo_calls = 0
        /\ run.dm_calls = 0
        /\ ~run.rendered
        /\ ~run.computed

\* a button press arrived with a file uploaded and an empty key, and the run stopped
C7_Witness ==
    /\ run.key_empty
    /\ run.button \in {"geocode", "compute"}
    /\ uploaded # NoFile
    /\ run.stopped

====
